---------------------------- MODULE Spec2Model ----------------------------
(***************************************************************************)
(* A model of tag_propagate.py, the `tagging` command: one run of main()   *)
(* over a small AWS account.                                               *)
(*                                                                         *)
(* Strings that flow into tag keys and tag values (resource ids, Name      *)
(* values, snapshot descriptions) are sequences of one-character strings,  *)
(* so that strip/split/replace/regex are computed character by character.  *)
(* Region names never flow into tags and are plain strings; Python's       *)
(* order on them is given by RegionOrder.                                  *)
(***************************************************************************)
EXTENDS Integers, Sequences, FiniteSets, TLC

VARIABLES
    argv,       \* the parsed command line: action, value, apply, fix_orphans, tag_storage
    pc,         \* position of main(): start, activate, loop, storage, done, error, crashed
    dry_run,    \* main's dry_run
    regions,    \* main's regions (as resolved, before sorted())
    todo,       \* the list the loop iterates: sorted(regions)
    idx,        \* position of the `for region in sorted(regions)` loop
    tags,       \* AWS: the tags of every resource (resource -> (key -> value))
    tags0,      \* the tags at the start of the run
    cost_tags,  \* AWS billing: the Cost Allocation Tags (key -> "Active" or "Inactive")
    writes,     \* every write call issued: <<api, resource, tags>>
    plans,      \* every [PLAN] line printed: <<resource type, resource, key, value>>
    errors,     \* every [ERROR]/[WARN] line printed: <<resource type, resource>>
    failed,     \* TRUE once any AWS call has failed
    calls,      \* the functions main has called, in order
    faults,     \* how many AWS failures the environment has injected (a failure
                \* chosen for a call the program never makes is none)
    arg,        \* a single function call: its argument
    ret,        \* a single function call: the function and its return value
    run         \* 1 in the first run of the command, 2 when it is run again

vars == <<argv, pc, dry_run, regions, todo, idx, tags, tags0, cost_tags, writes, plans,
          errors, failed, calls, faults, arg, ret, run>>

\* The most AWS calls that fail in one run.
MaxFaults == 1

\* The longest Name value of a single function call.
MaxLen == 4

-----------------------------------------------------------------------------
(* Characters and Python's str methods                                     *)

Digits == {"0", "1", "2", "3", "4", "5", "6", "7", "8", "9"}

LowerSeq == <<"a", "b", "c", "d", "e", "f", "g", "h", "i", "j", "k", "l", "m",
              "n", "o", "p", "q", "r", "s", "t", "u", "v", "w", "x", "y", "z">>

UpperSeq == <<"A", "B", "C", "D", "E", "F", "G", "H", "I", "J", "K", "L", "M",
              "N", "O", "P", "Q", "R", "S", "T", "U", "V", "W", "X", "Y", "Z">>

Letters == {LowerSeq[n] : n \in DOMAIN LowerSeq} \cup {UpperSeq[n] : n \in DOMAIN UpperSeq}

HexDigits == Digits \cup {"a", "b", "c", "d", "e", "f"}

\* str.isspace for the characters of the model
IsSpace(c) == c \in {" ", "\t", "\n"}

\* str.lower, one character
LowerChar(c) ==
    IF \E n \in DOMAIN UpperSeq : UpperSeq[n] = c
    THEN LowerSeq[CHOOSE n \in DOMAIN UpperSeq : UpperSeq[n] = c]
    ELSE c

\* str.lower
lower(s) == [n \in DOMAIN s |-> LowerChar(s[n])]

RECURSIVE lstrip(_)
lstrip(s) == IF s # <<>> /\ IsSpace(Head(s)) THEN lstrip(Tail(s)) ELSE s

RECURSIVE rstrip(_)
rstrip(s) ==
    IF s # <<>> /\ IsSpace(s[Len(s)]) THEN rstrip(SubSeq(s, 1, Len(s) - 1)) ELSE s

\* str.strip()
strip(s) == rstrip(lstrip(s))

RECURSIVE SplitFrom(_, _, _)
SplitFrom(s, cur, acc) ==
    IF s = <<>> THEN (IF cur = <<>> THEN acc ELSE Append(acc, cur))
    ELSE IF IsSpace(Head(s))
         THEN SplitFrom(Tail(s), <<>>, IF cur = <<>> THEN acc ELSE Append(acc, cur))
         ELSE SplitFrom(Tail(s), Append(cur, Head(s)), acc)

\* str.split() with no argument: the maximal runs of non-whitespace
split(s) == SplitFrom(s, <<>>, <<>>)

RECURSIVE join(_, _)
\* sep.join(parts)
join(sep, parts) ==
    IF parts = <<>> THEN <<>>
    ELSE IF Len(parts) = 1 THEN parts[1]
    ELSE parts[1] \o sep \o join(sep, Tail(parts))

\* s.replace(old, new) for one-character old and new
replace(s, old, new) == [n \in DOMAIN s |-> IF s[n] = old THEN new ELSE s[n]]

\* `sub in s`
Contains(s, sub) ==
    \E p \in 0..(Len(s) - Len(sub)) : SubSeq(s, p + 1, p + Len(sub)) = sub

\* s.startswith(pre)
StartsWith(s, pre) == Len(s) >= Len(pre) /\ SubSeq(s, 1, Len(pre)) = pre

\* re.sub(r"[^a-zA-Z0-9\-]", "-", s)
SubNonAlnum(s) ==
    [n \in DOMAIN s |-> IF s[n] \in Letters \cup Digits \cup {"-"} THEN s[n] ELSE "-"]

\* the number of hex digits of s from position p on (a greedy [0-9a-f]*)
RECURSIVE HexRun(_, _)
HexRun(s, p) == IF p <= Len(s) /\ s[p] \in HexDigits THEN 1 + HexRun(s, p + 1) ELSE 0

AmiMinHex == 8
AmiMaxHex == 17

Min(a, b) == IF a <= b THEN a ELSE b

\* re.findall(r"(ami-[0-9a-f]{8,17})", s): the non-overlapping matches from p on
RECURSIVE FindAmiFrom(_, _)
FindAmiFrom(s, p) ==
    IF p + 3 > Len(s) THEN <<>>
    ELSE IF SubSeq(s, p, p + 3) = <<"a", "m", "i", "-">> /\ HexRun(s, p + 4) >= AmiMinHex
         THEN LET n == Min(HexRun(s, p + 4), AmiMaxHex)
              IN  <<SubSeq(s, p, p + 3 + n)>> \o FindAmiFrom(s, p + 4 + n)
         ELSE FindAmiFrom(s, p + 1)

FindAmiIds(s) == FindAmiFrom(s, 1)

-----------------------------------------------------------------------------
(* Regions                                                                 *)

TARGET_REGIONS ==
    <<"us-east-1", "us-east-2", "us-west-1", "us-west-2", "ap-south-1",
      "ap-northeast-3", "ap-northeast-2", "ap-southeast-1", "ap-southeast-2",
      "ap-northeast-1", "ca-central-1", "eu-central-1", "eu-west-1", "eu-west-2",
      "eu-west-3", "eu-north-1", "sa-east-1">>

\* A region that is not in TARGET_REGIONS, for the command line.
OtherRegion == "af-south-1"

\* Python's order on the region names of the model (str.__lt__), least first.
RegionOrder ==
    <<"af-south-1", "ap-northeast-1", "ap-northeast-2", "ap-northeast-3",
      "ap-south-1", "ap-southeast-1", "ap-southeast-2", "ca-central-1",
      "eu-central-1", "eu-north-1", "eu-west-1", "eu-west-2", "eu-west-3",
      "sa-east-1", "us-east-1", "us-east-2", "us-west-1", "us-west-2">>

Rank(r) == CHOOSE n \in DOMAIN RegionOrder : RegionOrder[n] = r

\* r1 < r2 on str
StrLess(r1, r2) == Rank(r1) < Rank(r2)

RECURSIVE InsertSorted(_, _)
InsertSorted(r, s) ==
    IF s = <<>> THEN <<r>>
    ELSE IF StrLess(r, Head(s)) THEN <<r>> \o s
    ELSE <<Head(s)>> \o InsertSorted(r, Tail(s))

\* sorted that leaves the list as it is
sorted_Unsorted(s) == s

RECURSIVE sorted(_)
\* sorted(regions)
sorted(s) == IF s = <<>> THEN <<>> ELSE InsertSorted(s[Len(s)], sorted(SubSeq(s, 1, Len(s) - 1)))

\* list_all_regions(): TARGET_REGIONS is not empty
list_all_regions == TARGET_REGIONS


-----------------------------------------------------------------------------
(* The AWS account of the model: what the describe/list calls return.      *)
(* us-east-1 holds one resource of every kind, eu-west-1 one instance with *)
(* its volume, af-south-1 (not a target region) one instance and a volume. *)

NAME == <<"N", "a", "m", "e">>

i1 == <<"i", "-", "1">>
i2 == <<"i", "-", "2">>
i3 == <<"i", "-", "3">>
i9 == <<"i", "-", "9">>
v0 == <<"v", "-", "0">>
v1 == <<"v", "-", "1">>
v2 == <<"v", "-", "2">>
v3 == <<"v", "-", "3">>
v9 == <<"v", "-", "9">>
s1 == <<"s", "-", "1">>
s2 == <<"s", "-", "2">>
s3 == <<"s", "-", "3">>
s4 == <<"s", "-", "4">>
s5 == <<"s", "-", "5">>
ami1 == <<"a", "m", "i", "-", "0", "0", "0", "0", "0", "0", "0", "a">>
fs1 == <<"f", "s", "-", "1">>
ap1 == <<"f", "s", "a", "p", "-", "1">>
fx1 == <<"f", "x", "-", "1">>
fx2 == <<"f", "x", "-", "2">>
fx3 == <<"f", "x", "-", "3">>
ArnPrefix == <<"a", "r", "n", ":">>
\* ResourceARN of an FSx resource
Arn(id) == ArnPrefix \o id
b1 == <<"b", "-", "1">>
b2 == <<"b", "-", "2">>
fv1 == <<"f", "v", "-", "1">>
fv3 == <<"f", "v", "-", "3">>
sv1 == <<"s", "v", "-", "1">>

\* ec2.instances: every instance of the region, in the order AWS lists them
Instances(region) ==
    CASE region = "us-east-1" -> <<i1, i2>>
      [] region = "eu-west-1" -> <<i3>>
      [] region = OtherRegion -> <<i9>>
      [] OTHER -> <<>>

\* instance.state["Name"]
InstanceState(i) ==
    CASE i = i1 -> "running"
      [] i = i2 -> "terminated"
      [] i = i3 -> "stopped"
      [] OTHER -> "running"

\* instance.block_device_mappings: the VolumeId of each mapping
BlockDeviceMappings(i) ==
    CASE i = i1 -> <<v1>>
      [] i = i3 -> <<v3>>
      [] OTHER -> <<>>

\* describe_volumes(): every volume of the region
Volumes(region) ==
    CASE region = "us-east-1" -> <<v1, v2>>
      [] region = "eu-west-1" -> <<v3>>
      [] region = OtherRegion -> <<v9>>
      [] OTHER -> <<>>

\* volume['Attachments']: the InstanceId of each attachment
Attachments(v) ==
    CASE v = v1 -> <<i1>>
      [] v = v3 -> <<i3>>
      [] OTHER -> <<>>

\* describe_snapshots(OwnerIds=['self']): the account's snapshots of the region
Snapshots(region) ==
    CASE region = "us-east-1" -> <<s1, s2, s3>>
      [] region = "eu-west-1" -> <<s5>>
      [] OTHER -> <<>>

\* snapshot['VolumeId']; v0 is a volume that no longer exists
SnapshotVolume(s) ==
    CASE s = s1 -> v1
      [] s = s4 -> v1
      [] OTHER -> v0

\* snapshot['Description']: s-1 is a plain snapshot of v-1, s-2 the snapshot of an
\* image made from i-1, s-3 the snapshot of a copied image; s-4 is another
\* account's snapshot; s-5 is the snapshot of an image that was deregistered
Description(s) ==
    CASE s = s2 -> <<"f", "o", "r", " ", "i", "-", "1", " ", "a", "m", "i", "-", "0", "0", "0", "0", "0", "0", "0", "a">>
      [] s = s3 -> <<"C", "o", "p", "y", " ", "a", "m", "i", "-", "0", "0", "0", "0", "0", "0", "0", "a">>
      [] s = s4 -> <<"o", "f", " ", "i", "-", "1">>
      [] s = s5 -> <<"a", "m", "i", "-", "0", "0", "0", "0", "0", "0", "0", "b">>
      [] OTHER -> <<>>

\* describe_images(ImageIds=[a]): the images that exist
Images(region) == IF region = "us-east-1" THEN {ami1} ELSE {}

\* image['Name']
ImageName(a) == <<"i", "m", "g", " ", "1">>

\* efs.describe_file_systems()
EfsFileSystems(region) == IF region = "us-east-1" THEN <<fs1>> ELSE <<>>

\* efs.describe_access_points(FileSystemId=fs)
AccessPoints(fs) == IF fs = fs1 THEN <<ap1>> ELSE <<>>

\* fsx.describe_file_systems(): the FileSystemId of each
FsxFileSystems(region) == IF region = "us-east-1" THEN <<fx1, fx2, fx3>> ELSE <<>>

\* fs["FileSystemType"]
FileSystemType(fs) ==
    CASE fs = fx1 -> "ONTAP"
      [] fs = fx3 -> "OPENZFS"
      [] OTHER -> "LUSTRE"

\* fsx.describe_backups(file-system-id): the FSx backup ids
Backups(fs) == CASE fs = fx1 -> <<b1>> [] fs = fx2 -> <<b2>> [] OTHER -> <<>>

\* fsx.describe_volumes(file-system-id)
FsxVolumes(fs) == CASE fs = fx1 -> <<fv1>> [] fs = fx3 -> <<fv3>> [] OTHER -> <<>>

\* fsx.describe_storage_virtual_machines(file-system-id)
Svms(fs) == IF fs = fx1 THEN <<sv1>> ELSE <<>>

Range(s) == {s[n] : n \in DOMAIN s}

ModelRegions == Range(RegionOrder)

AllInstances == UNION {Range(Instances(r)) : r \in ModelRegions}
AllVolumes == UNION {Range(Volumes(r)) : r \in ModelRegions}
AllSnapshots == UNION {Range(Snapshots(r)) : r \in ModelRegions} \cup {s4}
AllImages == UNION {Images(r) : r \in ModelRegions}
AllEfs == UNION {Range(EfsFileSystems(r)) \cup
                 UNION {Range(AccessPoints(fs)) : fs \in Range(EfsFileSystems(r))} :
                 r \in ModelRegions}
AllFsxIds == UNION {Range(FsxFileSystems(r)) \cup
                    UNION {Range(Backups(fs)) \cup Range(FsxVolumes(fs)) \cup Range(Svms(fs)) :
                           fs \in Range(FsxFileSystems(r))} :
                    r \in ModelRegions}
AllFsx == {Arn(id) : id \in AllFsxIds}

\* Every taggable resource, by the id (EC2, EFS) or ARN (FSx) the tag calls take.
AllResources == AllInstances \cup AllVolumes \cup AllSnapshots \cup AllImages
                \cup AllEfs \cup AllFsx

\* The region a resource lives in.
RegionOf(res) ==
    CASE res \in {i3, v3, s5} -> "eu-west-1"
      [] res \in {i9, v9} -> OtherRegion
      [] OTHER -> "us-east-1"

\* The kind of a resource.
KindOf(res) ==
    CASE res \in AllInstances -> "instance"
      [] res \in AllVolumes -> "volume"
      [] res \in AllSnapshots -> "snapshot"
      [] res \in AllImages -> "image"
      [] res \in AllEfs -> "efs"
      [] OTHER -> "fsx"

-----------------------------------------------------------------------------
(* The run's state as the functions below pass it along: the AWS tags, the *)
(* logs, `crashed` once an exception has left main, F, the AWS calls       *)
(* (<<api, argument>>) that fail in this step, and `hit` once one did.     *)

EmptyTags == [k \in {} |-> <<>>]

\* Does this AWS call raise ClientError?
Fails(st, api, id) == <<api, id>> \in st.F

\* An exception nobody catches: the traceback ends the run.
Crash(st) == [st EXCEPT !.failed = TRUE, !.hit = TRUE, !.crashed = TRUE]

\* A caught exception whose message is printed.
PrintError(st, rtype, id) ==
    [st EXCEPT !.failed = TRUE, !.hit = TRUE, !.errors = @ \cup {<<rtype, id>>}]

\* A caught exception that is swallowed (except: pass).
Swallow(st) == [st EXCEPT !.failed = TRUE, !.hit = TRUE]

\* {t["Key"]: t["Value"] for t in Tags}: later tags replace earlier ones
RECURSIVE PutTags(_, _)
PutTags(current, tagList) ==
    IF tagList = <<>> THEN current
    ELSE LET k == tagList[1][1]
             v == tagList[1][2]
         IN  PutTags([x \in DOMAIN current \cup {k} |-> IF x = k THEN v ELSE current[x]],
                     Tail(tagList))

\* AWS rejects a tag request with an empty key or with the same key twice.
InvalidTags(tagList) ==
    \/ \E n \in DOMAIN tagList : tagList[n][1] = <<>>
    \/ \E m, n \in DOMAIN tagList : m # n /\ tagList[m][1] = tagList[n][1]

\* The [PLAN] lines of one resource.
PlanLines(rtype, id, tagList) ==
    {<<rtype, id, tagList[n][1], tagList[n][2]>> : n \in DOMAIN tagList}

\* client.create_tags(Resources=[id], Tags=tagList)
create_tags(st, id, tagList, rtype) ==
    LET issued == [st EXCEPT !.writes = @ \cup {<<"create_tags", id, tagList>>}]
    IN  IF Fails(st, "create_tags", id) \/ InvalidTags(tagList)
        THEN PrintError(issued, rtype, id)
        ELSE [issued EXCEPT !.tags[id] = PutTags(@, tagList)]

\* plan_or_apply that applies in a dry run as well
plan_or_apply_always(st, id, tags_to_add, rtype, dry) ==
    IF tags_to_add = <<>> THEN st ELSE create_tags(st, id, tags_to_add, rtype)

plan_or_apply(st, id, tags_to_add, rtype, dry) ==
    IF tags_to_add = <<>> THEN st
    ELSE IF dry
         THEN [st EXCEPT !.plans = @ \cup PlanLines(rtype, id, tags_to_add)]
         ELSE create_tags(st, id, tags_to_add, rtype)

\* MissingTags that forgets the key when it adds the Name
MissingTags_NameFirst(current, key, name_value) ==
    IF NAME \notin DOMAIN current THEN <<<<NAME, name_value>>>>
    ELSE IF key \notin DOMAIN current THEN <<<<key, <<>>>>>>
    ELSE <<>>

\* MissingTags without the test for tags that are already there
MissingTags_Overwrite(current, key, name_value) ==
    <<<<NAME, name_value>>, <<key, <<>>>>>>

\* tags_to_add of process_resource, process_instance and the storage code:
\* Name when it is absent, then the key when it is absent
MissingTags(current, key, name_value) ==
    (IF NAME \notin DOMAIN current THEN <<<<NAME, name_value>>>> ELSE <<>>)
    \o (IF key \notin DOMAIN current THEN <<<<key, <<>>>>>> ELSE <<>>)

\* process_resource without its try/except: a failing describe call leaves main
process_resource_Uncaught(st, id, machine_key, name_value, rtype, dry) ==
    LET api == IF rtype = "Volume" THEN "describe_volumes" ELSE "describe_snapshots"
    IN  IF Fails(st, api, id)
        THEN Crash(st)
        ELSE plan_or_apply(st, id, MissingTags(st.tags[id], machine_key, name_value),
                           rtype, dry)

process_resource(st, id, machine_key, name_value, rtype, dry) ==
    LET api == IF rtype = "Volume" THEN "describe_volumes" ELSE "describe_snapshots"
    IN  IF Fails(st, api, id)
        THEN PrintError(st, rtype, id)
        ELSE plan_or_apply(st, id, MissingTags(st.tags[id], machine_key, name_value),
                           rtype, dry)

RECURSIVE ProcessResources(_, _, _, _, _, _)
\* `for ...: process_resource(...)`
ProcessResources(st, ids, machine_key, name_value, rtype, dry) ==
    IF ids = <<>> THEN st
    ELSE ProcessResources(process_resource(st, Head(ids), machine_key, name_value, rtype, dry),
                          Tail(ids), machine_key, name_value, rtype, dry)

\* get_machine_key that only replaces the blanks
get_machine_key_ReplaceOnly(instance_tags, instance_id) ==
    IF NAME \in DOMAIN instance_tags /\ instance_tags[NAME] # <<>>
    THEN replace(instance_tags[NAME], " ", "-")
    ELSE instance_id

get_machine_key(instance_tags, instance_id) ==
    IF NAME \in DOMAIN instance_tags /\ instance_tags[NAME] # <<>>
    THEN replace(join(<<" ">>, split(strip(instance_tags[NAME]))), " ", "-")
    ELSE instance_id

\* NameValue that is always the instance id
NameValue_IdOnly(instance_tags, instance_id) == instance_id

\* next((t["Value"] for t in tags if t["Key"] == "Name"), None) or instance.id
NameValue(instance_tags, instance_id) ==
    IF NAME \in DOMAIN instance_tags /\ instance_tags[NAME] # <<>>
    THEN instance_tags[NAME]
    ELSE instance_id

tag_volumes_and_snapshots(st, instance, machine_key, name_value, dry, tag_volumes, tag_snapshots) ==
    LET volume_ids == BlockDeviceMappings(instance)
        region == RegionOf(instance)
        OfVolumes(s) == SnapshotVolume(s) \in Range(volume_ids)
        OfInstance(s) == Contains(Description(s), instance)
        st1 == IF tag_volumes
               THEN ProcessResources(st, volume_ids, machine_key, name_value, "Volume", dry)
               ELSE st
        st2 == IF tag_snapshots /\ volume_ids # <<>>
               THEN IF Fails(st1, "describe_snapshots:volume-id", instance)
                    THEN Crash(st1)
                    ELSE ProcessResources(st1, SelectSeq(Snapshots(region), OfVolumes),
                                          machine_key, name_value, "Snapshot", dry)
               ELSE st1
    IN  IF st2.crashed \/ ~tag_snapshots THEN st2
        ELSE IF Fails(st2, "describe_snapshots:description", instance)
             THEN Crash(st2)
             ELSE ProcessResources(st2, SelectSeq(Snapshots(region), OfInstance),
                                   machine_key, name_value, "Snapshot (AMI)", dry)

process_instance(st, instance, dry, tag_instance, tag_volumes, tag_snapshots) ==
    IF Fails(st, "load", instance) THEN Crash(st)
    ELSE IF InstanceState(instance) = "terminated" THEN st
    ELSE LET machine_key == get_machine_key(st.tags[instance], instance)
             name_value == NameValue(st.tags[instance], instance)
             st1 == IF tag_instance
                    THEN plan_or_apply(st, instance,
                                       MissingTags(st.tags[instance], machine_key, name_value),
                                       "EC2 Instance", dry)
                    ELSE st
         IN  IF tag_volumes \/ tag_snapshots
             THEN tag_volumes_and_snapshots(st1, instance, machine_key, name_value, dry,
                                            tag_volumes, tag_snapshots)
             ELSE st1

RECURSIVE ProcessInstances(_, _, _, _, _, _)
\* `for instance in ...: process_instance(...)`, until an exception ends the loop
ProcessInstances(st, instances, dry, tag_instances, tag_volumes, tag_snapshots) ==
    IF instances = <<>> \/ st.crashed THEN st
    ELSE ProcessInstances(process_instance(st, Head(instances), dry, tag_instances,
                                           tag_volumes, tag_snapshots),
                          Tail(instances), dry, tag_instances, tag_volumes, tag_snapshots)

\* Filters=[{'Name': 'instance-state-name', 'Values': ['running', 'stopped']}]
RunningOrStopped(i) == InstanceState(i) \in {"running", "stopped"}

process_region(st, region, dry, tag_instances, tag_volumes, tag_snapshots) ==
    IF Fails(st, "describe_instances", region) THEN Crash(st)
    ELSE ProcessInstances(st, SelectSeq(Instances(region), RunningOrStopped), dry,
                          tag_instances, tag_volumes, tag_snapshots)

-----------------------------------------------------------------------------
(* The EBS-wide modes and the orphan repair                                *)

\* Python's None; no string of the model equals it.
None == <<"None">>

\* `not x` for a string or None
Falsy(x) == x = None \/ x = <<>>

\* EbsMissingTags that adds the key whether the resource has it or not
EbsMissingTags_KeyAgain(current_tags, machine_key, name_value) ==
    (IF NAME \notin DOMAIN current_tags THEN <<<<NAME, name_value>>>> ELSE <<>>)
    \o (IF ~Falsy(machine_key) THEN <<<<machine_key, <<>>>>>> ELSE <<>>)

\* tags_to_add of process_all_volumes and process_all_snapshots
EbsMissingTags(current_tags, machine_key, name_value) ==
    (IF NAME \notin DOMAIN current_tags THEN <<<<NAME, name_value>>>> ELSE <<>>)
    \o (IF ~Falsy(machine_key) /\ machine_key \notin DOMAIN current_tags
        THEN <<<<machine_key, <<>>>>>>
        ELSE <<>>)

\* name_value and machine_key taken from a Name tag value
FromName(st, value) == [st |-> st, name_value |-> value, machine_key |-> replace(value, " ", "-")]

RECURSIVE FromAttachments(_, _)
\* `for attachment in Attachments: ... break`: name_value and machine_key from the
\* first attached instance whose describe_instances call succeeds
FromAttachments(st, attachments) ==
    IF attachments = <<>> THEN [st |-> st, name_value |-> None, machine_key |-> None]
    ELSE LET instance_id == Head(attachments)
         IN  IF Fails(st, "describe_instances:id", instance_id)
             THEN FromAttachments(Swallow(st), Tail(attachments))
             ELSE IF NAME \in DOMAIN st.tags[instance_id]
                  THEN FromName(st, st.tags[instance_id][NAME])
                  ELSE [st |-> st, name_value |-> instance_id, machine_key |-> instance_id]

\* One iteration of process_all_volumes' loop; `listed` are the tags as listed.
ProcessVolume(st, listed, volume_id, dry) ==
    LET current_tags == listed[volume_id]
        a == FromAttachments(st, Attachments(volume_id))
        r == IF ~Falsy(a.name_value) THEN a
             ELSE IF NAME \in DOMAIN current_tags
                  THEN FromName(a.st, current_tags[NAME])
                  ELSE [a EXCEPT !.name_value = None]
    IN  IF Falsy(r.name_value) /\ NAME \notin DOMAIN current_tags
        THEN r.st
        ELSE plan_or_apply(r.st, volume_id,
                           EbsMissingTags(current_tags, r.machine_key, r.name_value),
                           "Volume", dry)

RECURSIVE ProcessVolumes(_, _, _, _)
ProcessVolumes(st, listed, volume_ids, dry) ==
    IF volume_ids = <<>> THEN st
    ELSE ProcessVolumes(ProcessVolume(st, listed, Head(volume_ids), dry), listed,
                        Tail(volume_ids), dry)

process_all_volumes(st, region, dry) ==
    IF Fails(st, "describe_volumes:all", region) THEN Crash(st)
    ELSE ProcessVolumes(st, st.tags, Volumes(region), dry)

\* img Name tag value, else img['Name'] (None when both are empty)
AmiName(st, ami_id) ==
    LET img_tags == st.tags[ami_id]
    IN  IF NAME \in DOMAIN img_tags /\ img_tags[NAME] # <<>> THEN img_tags[NAME]
        ELSE IF ImageName(ami_id) # <<>> THEN ImageName(ami_id)
        ELSE None

\* process_all_snapshots: name_value and machine_key from the snapshot's volume
FromVolume(st, region, volume_id) ==
    IF volume_id \notin Range(Volumes(region))
    THEN [st |-> st, name_value |-> None, machine_key |-> None]
    ELSE IF Fails(st, "describe_volumes", volume_id)
    THEN [st |-> Swallow(st), name_value |-> None, machine_key |-> None]
    ELSE IF NAME \in DOMAIN st.tags[volume_id]
    THEN FromName(st, st.tags[volume_id][NAME])
    ELSE FromAttachments(st, Attachments(volume_id))

\* process_all_snapshots: name_value and machine_key from the AMI of the description
FromDescription(st, region, desc) ==
    LET ami_ids == FindAmiIds(desc)
        none == [st |-> st, name_value |-> None, machine_key |-> None]
    IN  IF ami_ids = <<>> THEN none
        ELSE IF ami_ids[1] \notin Images(region) THEN none
        ELSE IF Fails(st, "describe_images", ami_ids[1]) THEN [none EXCEPT !.st = Swallow(st)]
        ELSE IF AmiName(st, ami_ids[1]) = None THEN none
        ELSE [st |-> st, name_value |-> AmiName(st, ami_ids[1]),
              machine_key |-> SubNonAlnum(AmiName(st, ami_ids[1]))]

\* One iteration of process_all_snapshots' loop.
ProcessSnapshot(st, listed, region, snapshot_id, dry) ==
    LET current_tags == listed[snapshot_id]
        a == FromVolume(st, region, SnapshotVolume(snapshot_id))
        b == IF ~Falsy(a.name_value) THEN a
             ELSE FromDescription(a.st, region, Description(snapshot_id))
        r == IF Falsy(b.name_value) /\ NAME \in DOMAIN current_tags
             THEN FromName(b.st, current_tags[NAME])
             ELSE b
    IN  IF Falsy(r.name_value) THEN r.st
        ELSE plan_or_apply(r.st, snapshot_id,
                           EbsMissingTags(current_tags, r.machine_key, r.name_value),
                           "Snapshot", dry)

RECURSIVE ProcessSnapshots(_, _, _, _, _)
ProcessSnapshots(st, listed, region, snapshot_ids, dry) ==
    IF snapshot_ids = <<>> THEN st
    ELSE ProcessSnapshots(ProcessSnapshot(st, listed, region, Head(snapshot_ids), dry),
                          listed, region, Tail(snapshot_ids), dry)

process_all_snapshots(st, region, dry) ==
    IF Fails(st, "describe_snapshots:all", region) THEN Crash(st)
    ELSE ProcessSnapshots(st, st.tags, region, Snapshots(region), dry)

process_all_ebs(st, region, dry) ==
    LET st1 == process_all_volumes(st, region, dry)
    IN  IF st1.crashed THEN st1 ELSE process_all_snapshots(st1, region, dry)

RECURSIVE FirstImage(_, _, _)
\* fix_orphaned_ami_snapshots' `for ami_id in ami_ids: try ... break`: the image
\* that answered (ami_id is the loop variable as the loop leaves it)
FirstImage(st, region, ami_ids) ==
    LET ami_id == Head(ami_ids)
        missed == IF ami_id \in Images(region) THEN Swallow(st) ELSE st
    IN  IF ami_id \in Images(region) /\ ~Fails(st, "describe_images", ami_id)
        THEN LET n == AmiName(st, ami_id)
                 ami_name == IF n = None THEN ami_id ELSE n
             IN  [st |-> st, ami_id |-> ami_id, ami_name |-> ami_name,
                  ami_key |-> SubNonAlnum(ami_name)]
        ELSE IF Len(ami_ids) = 1
             THEN [st |-> missed, ami_id |-> ami_id, ami_name |-> None, ami_key |-> None]
             ELSE FirstImage(missed, region, Tail(ami_ids))

\* FixSnapshot without the test for a Name tag on the snapshot
FixSnapshot_IgnoreName(st, listed, region, snap_id, dry) ==
    LET desc == lower(Description(snap_id))
        ami_ids == FindAmiIds(desc)
        current_tags == listed[snap_id]
    IN  IF ~Contains(desc, <<"a", "m", "i", "-">>) \/ ami_ids = <<>>
        THEN st
        ELSE LET f == FirstImage(st, region, ami_ids)
                 to_add == <<<<NAME, f.ami_name>>>>
                           \o (IF f.ami_key \notin DOMAIN current_tags
                               THEN <<<<f.ami_key, <<>>>>>>
                               ELSE <<>>)
             IN  IF Falsy(f.ami_name) THEN f.st
                 ELSE plan_or_apply(f.st, snap_id, to_add, "Snapshot (Orphan-AMI)", dry)

\* One iteration of fix_orphaned_ami_snapshots' loop.
FixSnapshot(st, listed, region, snap_id, dry) ==
    LET desc == lower(Description(snap_id))
        ami_ids == FindAmiIds(desc)
        current_tags == listed[snap_id]
    IN  IF ~Contains(desc, <<"a", "m", "i", "-">>) \/ ami_ids = <<>>
           \/ NAME \in DOMAIN current_tags
        THEN st
        ELSE LET f == FirstImage(st, region, ami_ids)
                 to_add == <<<<NAME, f.ami_name>>>>
                           \o (IF f.ami_key \notin DOMAIN current_tags
                               THEN <<<<f.ami_key, <<>>>>>>
                               ELSE <<>>)
                 st1 == plan_or_apply(f.st, snap_id, to_add, "Snapshot (Orphan-AMI)", dry)
             IN  IF Falsy(f.ami_name) THEN f.st
                 ELSE IF f.ami_id \notin Images(region) THEN st1
                 ELSE IF Fails(st1, "describe_images", f.ami_id) THEN Swallow(st1)
                 ELSE IF ~Falsy(f.ami_key) /\ f.ami_key \notin DOMAIN st1.tags[f.ami_id]
                      THEN plan_or_apply(st1, f.ami_id, <<<<f.ami_key, <<>>>>>>, "Image", dry)
                      ELSE st1

RECURSIVE FixSnapshots(_, _, _, _, _)
FixSnapshots(st, listed, region, snapshot_ids, dry) ==
    IF snapshot_ids = <<>> THEN st
    ELSE FixSnapshots(FixSnapshot(st, listed, region, Head(snapshot_ids), dry),
                      listed, region, Tail(snapshot_ids), dry)

fix_orphaned_ami_snapshots(st, region, dry) ==
    IF Fails(st, "describe_snapshots:all", region) THEN Crash(st)
    ELSE FixSnapshots(st, st.tags, region, Snapshots(region), dry)

-----------------------------------------------------------------------------
(* EFS and FSx                                                             *)

normalize_storage_key(name) ==
    LET stripped == strip(name)
        subbed == [n \in DOMAIN stripped |->
                     IF stripped[n] \in Letters \cup Digits \cup {"-"} \/ IsSpace(stripped[n])
                     THEN stripped[n]
                     ELSE "-"]
    IN  replace(subbed, " ", "-")

\* client.tag_resource(ResourceId=... / ResourceARN=..., Tags=tagList)
tag_resource(st, id, tagList, rtype) ==
    LET issued == [st EXCEPT !.writes = @ \cup {<<"tag_resource", id, tagList>>}]
    IN  IF Fails(st, "tag_resource", id) \/ InvalidTags(tagList)
        THEN PrintError(issued, rtype, id)
        ELSE [issued EXCEPT !.tags[id] = PutTags(@, tagList)]

plan_or_apply_storage(st, id, tags_to_add, rtype, dry) ==
    IF tags_to_add = <<>> THEN st
    ELSE IF dry
         THEN [st EXCEPT !.plans = @ \cup PlanLines(rtype, id, tags_to_add)]
         ELSE tag_resource(st, id, tags_to_add, rtype)

\* get_current_tags_storage: the tags, or {} when the call fails (for FSx also
\* when the argument is no ARN; every FSx call of the program passes an ARN)
get_current_tags_storage(st, id) ==
    IF Fails(st, "list_tags_for_resource", id)
    THEN [st |-> Swallow(st), current |-> EmptyTags]
    ELSE [st |-> st, current |-> st.tags[id]]

\* next((t["Value"] for t in fs.get("Tags", []) if t["Key"].lower() == "name"), None):
\* in the accounts of the model all such tags of a resource that are not empty
\* have one value, so the order of the listing does not matter
NameTag(fs_tags) ==
    LET ks == {k \in DOMAIN fs_tags : lower(k) = lower(NAME)}
        full == {k \in ks : fs_tags[k] # <<>>}
    IN  IF ks = {} THEN None
        ELSE IF full = {} THEN <<>>
        ELSE fs_tags[CHOOSE k \in full : TRUE]

\* name = name_tag or fs_id
StorageName(fs_tags, fs_id) == IF Falsy(NameTag(fs_tags)) THEN fs_id ELSE NameTag(fs_tags)

\* The file system itself: Name and the key, each when absent.
TagFileSystem(st, id, key, name, rtype, dry) ==
    LET c == get_current_tags_storage(st, id)
    IN  plan_or_apply_storage(c.st, id, MissingTags(c.current, key, name), rtype, dry)

RECURSIVE TagChildren_WithName(_, _, _, _, _)
\* TagChildren that gives the children a Name tag as well
TagChildren_WithName(st, ids, key, rtype, dry) ==
    IF ids = <<>> THEN st
    ELSE LET c == get_current_tags_storage(st, Head(ids))
             st1 == plan_or_apply_storage(c.st, Head(ids), MissingTags(c.current, key, key),
                                          rtype, dry)
         IN  TagChildren_WithName(st1, Tail(ids), key, rtype, dry)

RECURSIVE TagChildren(_, _, _, _, _)
\* Access points, backups, volumes and SVMs: the key alone, when absent.
TagChildren(st, ids, key, rtype, dry) ==
    IF ids = <<>> THEN st
    ELSE LET c == get_current_tags_storage(st, Head(ids))
             st1 == IF key \in DOMAIN c.current THEN c.st
                    ELSE plan_or_apply_storage(c.st, Head(ids), <<<<key, <<>>>>>>, rtype, dry)
         IN  TagChildren(st1, Tail(ids), key, rtype, dry)

RECURSIVE ProcessEfs(_, _, _, _)
ProcessEfs(st, listed, file_systems, dry) ==
    IF file_systems = <<>> THEN st
    ELSE LET fs_id == Head(file_systems)
             name == StorageName(listed[fs_id], fs_id)
             key == normalize_storage_key(name)
             st1 == TagFileSystem(st, fs_id, key, name, "EFS FileSystem", dry)
             st2 == IF Fails(st1, "describe_access_points", fs_id)
                    THEN PrintError(st1, "Access Points", fs_id)
                    ELSE TagChildren(st1, AccessPoints(fs_id), key, "EFS AccessPoint", dry)
         IN  ProcessEfs(st2, listed, Tail(file_systems), dry)

Arns(ids) == [n \in DOMAIN ids |-> Arn(ids[n])]

RECURSIVE ProcessFsx(_, _, _, _, _)
\* The FSx loop; `aborted` once a describe call has raised into the outer try.
ProcessFsx(st, listed, region, file_systems, dry) ==
    IF file_systems = <<>> THEN st
    ELSE LET fs_id == Head(file_systems)
             fs_type == FileSystemType(fs_id)
             name == StorageName(listed[Arn(fs_id)], fs_id)
             key == normalize_storage_key(name)
             abort(x) == PrintError(x, "FSx", <<>>)
             st1 == TagFileSystem(st, Arn(fs_id), key, name, "FSx FileSystem", dry)
         IN  IF Fails(st1, "describe_backups", fs_id) THEN abort(st1)
             ELSE LET st2 == TagChildren(st1, Arns(Backups(fs_id)), key, "FSx Backup", dry)
                      vols == fs_type \in {"ONTAP", "WINDOWS", "OPENZFS"}
                      svms == fs_type = "ONTAP"
                  IN  IF vols /\ Fails(st2, "fsx:describe_volumes", fs_id) THEN abort(st2)
                      ELSE LET st3 == IF vols
                                      THEN TagChildren(st2, Arns(FsxVolumes(fs_id)), key,
                                                       "FSx Volume", dry)
                                      ELSE st2
                           IN  IF svms /\ Fails(st3, "describe_storage_virtual_machines", fs_id)
                               THEN abort(st3)
                               ELSE ProcessFsx(
                                      IF svms
                                      THEN TagChildren(st3, Arns(Svms(fs_id)), key, "FSx SVM", dry)
                                      ELSE st3,
                                      listed, region, Tail(file_systems), dry)

process_efs_and_fsx(st, region, dry, process_efs, process_fsx) ==
    LET st1 == IF ~process_efs THEN st
               ELSE IF Fails(st, "efs:describe_file_systems", region)
                    THEN PrintError(st, "EFS", <<>>)
                    ELSE ProcessEfs(st, st.tags, EfsFileSystems(region), dry)
    IN  IF ~process_fsx THEN st1
        ELSE IF Fails(st1, "fsx:describe_file_systems", region)
             THEN PrintError(st1, "FSx", <<>>)
             ELSE ProcessFsx(st1, st1.tags, region, FsxFileSystems(region), dry)

-----------------------------------------------------------------------------
(* show and activate                                                       *)

show_region(st, region) ==
    IF Fails(st, "describe_instances:all", region) THEN Crash(st)
    ELSE LET st1 == IF Fails(st, "efs:describe_file_systems", region)
                    THEN PrintError(st, "EFS", <<>>)
                    ELSE st
         IN  IF Fails(st1, "fsx:describe_file_systems", region)
             THEN PrintError(st1, "FSx", <<>>)
             ELSE st1

RECURSIVE SetToSeq(_)
\* list(a set): some order
SetToSeq(S) ==
    IF S = {} THEN <<>>
    ELSE LET x == CHOOSE y \in S : TRUE IN <<x>> \o SetToSeq(S \ {x})

\* The resources describe_tags reports for the region: the account's own
\* instances, volumes and snapshots.
TaggedEc2(region) ==
    Range(Instances(region)) \cup Range(Volumes(region)) \cup Range(Snapshots(region))

\* One region's scan of activate_cost_allocation_tags: the keys not starting with "aws:"
ScanKeys(st, region) ==
    IF Fails(st, "describe_tags", region) THEN {}
    ELSE {k \in UNION {DOMAIN st.tags[res] : res \in TaggedEc2(region)} :
            ~StartsWith(k, <<"a", "w", "s", ":">>)}

RECURSIVE ScanRegions(_, _)
\* <<st, all_keys>> after `for region in regions`
ScanRegions(st, rs) ==
    IF rs = <<>> THEN [st |-> st, all_keys |-> {}]
    ELSE LET st1 == IF Fails(st, "describe_tags", Head(rs))
                    THEN PrintError(st, "describe_tags", <<>>)
                    ELSE st
             rest == ScanRegions(st1, Tail(rs))
         IN  [st |-> rest.st, all_keys |-> ScanKeys(st, Head(rs)) \cup rest.all_keys]

\* billing.put_cost_allocation_tags(TagKeys=tag_keys)
put_cost_allocation_tags(st, tag_keys) ==
    LET issued == [st EXCEPT !.writes = @ \cup {<<"put_cost_allocation_tags", <<>>, tag_keys>>}]
    IN  IF Fails(st, "put_cost_allocation_tags", "ce")
        THEN PrintError(issued, "Cost Allocation Tags", <<>>)
        ELSE [issued EXCEPT !.cost_tags =
                [k \in DOMAIN @ \cup Range(tag_keys) |->
                   IF k \in Range(tag_keys) THEN "Active" ELSE @[k]]]

activate_cost_allocation_tags(st, rs, dry) ==
    IF Fails(st, "list_cost_allocation_tags", "ce")
    THEN PrintError(st, "Cost Allocation Tags", <<>>)
    ELSE LET active_keys == DOMAIN st.cost_tags
             scan == ScanRegions(st, rs)
             eligible == scan.all_keys \ active_keys
         IN  IF eligible = {} THEN scan.st
             ELSE IF dry
             THEN [scan.st EXCEPT !.plans = @ \cup {<<"PLAN", <<>>, k, <<>>>> : k \in eligible}]
             ELSE put_cost_allocation_tags(scan.st, SetToSeq(eligible))

-----------------------------------------------------------------------------
(* main()                                                                  *)

Actions == {"all", "set", "dry-run", "show", "activate", "ec2", "ebs", "volumes",
            "snapshots", "fsx", "efs"}

\* args.value when the positional is omitted
NoValue == "<None>"

Values == {NoValue, "us-east-1", OtherRegion}

\* ResolveDryRun without the forced dry run of the dry-run action
ResolveDryRun_ApplyWins(action, apply) == IF action = "show" THEN TRUE ELSE ~apply

\* main: `Resolve DRY-RUN behavior`
ResolveDryRun(action, apply) ==
    IF action = "dry-run" THEN TRUE
    ELSE IF action = "show" THEN TRUE
    ELSE ~apply

\* RegionRequired that never asks for a region
RegionRequired_Never(action, value) == FALSE

\* main: parser.error("Region is required for 'set' action...")
RegionRequired(action, value) == action = "set" /\ value = NoValue

\* main: `Resolve regions based on action/value`
ResolveRegions(action, value) ==
    IF action = "all" THEN list_all_regions
    ELSE IF value = NoValue THEN list_all_regions
    ELSE <<value>>

\* main: regions of `tagging activate`
ActivateRegions(value) == IF value = NoValue THEN TARGET_REGIONS ELSE <<value>>

\* Branch with --fix-orphans looked at before show
Branch_OrphansFirst(action, fix_orphans) ==
    IF fix_orphans THEN "orphans"
    ELSE IF action = "show" THEN "show"
    ELSE IF action \in {"ec2", "ebs", "volumes", "snapshots", "fsx", "efs"} THEN action
    ELSE "normal"

\* Branch with the resource-specific actions looked at before --fix-orphans
Branch_ActionFirst(action, fix_orphans) ==
    IF action = "show" THEN "show"
    ELSE IF action \in {"ec2", "ebs", "volumes", "snapshots", "fsx", "efs"} THEN action
    ELSE IF fix_orphans THEN "orphans"
    ELSE "normal"

\* Branch that sends `volumes` to the loop of `ebs`
Branch_VolumesAsEbs(action, fix_orphans) ==
    IF action = "show" THEN "show"
    ELSE IF fix_orphans THEN "orphans"
    ELSE IF action = "volumes" THEN "ebs"
    ELSE IF action \in {"ec2", "ebs", "snapshots", "fsx", "efs"} THEN action
    ELSE "normal"

\* main: which loop runs: show first, then --fix-orphans, then the
\* resource-specific actions, else EC2 lineage with optional storage
Branch(action, fix_orphans) ==
    IF action = "show" THEN "show"
    ELSE IF fix_orphans THEN "orphans"
    ELSE IF action \in {"ec2", "ebs", "volumes", "snapshots", "fsx", "efs"} THEN action
    ELSE "normal"

\* StorageAfterRegion with the flag inverted
StorageAfterRegion_Inverted(branch, tag_storage) == branch = "normal" /\ ~tag_storage

\* main: is process_efs_and_fsx called after process_region in this branch?
StorageAfterRegion(branch, tag_storage) == branch = "normal" /\ tag_storage

\* The region of the current loop iteration.
Region == todo[idx]

InLoop == pc = "loop" /\ idx <= Len(todo)

RECURSIVE UpTo(_, _)
\* the sets of at most k of the points P
UpTo(P, k) ==
    IF k = 0 THEN {{}}
    ELSE LET S == UpTo(P, k - 1) IN S \cup {F \cup {p} : F \in S, p \in P}

\* The AWS failures the environment may inject into one step.
FaultSets(P) == UpTo(P, MaxFaults - faults)

WriteApis == {"create_tags", "tag_resource", "put_cost_allocation_tags"}

\* The failures to consider: a write call is only made when applying.
Points(P) == {p \in P : p[1] \in WriteApis => ~dry_run}

Ec2Points(region) ==
    {<<"describe_instances", region>>}
    \cup ({"load", "create_tags", "describe_snapshots:volume-id",
           "describe_snapshots:description"} \X Range(Instances(region)))
    \cup ({"describe_volumes", "create_tags"} \X Range(Volumes(region)))
    \cup ({"describe_snapshots", "create_tags"} \X Range(Snapshots(region)))

EbsPoints(region) ==
    {<<"describe_volumes:all", region>>, <<"describe_snapshots:all", region>>}
    \cup ({"describe_instances:id"} \X Range(Instances(region)))
    \cup ({"describe_volumes", "create_tags"} \X Range(Volumes(region)))
    \cup ({"create_tags"} \X Range(Snapshots(region)))
    \cup ({"describe_images", "create_tags"} \X Images(region))

EfsPoints(region) ==
    {<<"efs:describe_file_systems", region>>}
    \cup ({"describe_access_points"} \X Range(EfsFileSystems(region)))
    \cup ({"list_tags_for_resource", "tag_resource"}
          \X {res \in AllEfs : RegionOf(res) = region})

FsxPoints(region) ==
    {<<"fsx:describe_file_systems", region>>}
    \cup ({"describe_backups", "fsx:describe_volumes", "describe_storage_virtual_machines"}
          \X Range(FsxFileSystems(region)))
    \cup ({"list_tags_for_resource", "tag_resource"}
          \X {Arn(id) : id \in {x \in AllFsxIds : region = "us-east-1"}})

ShowPoints(region) ==
    {<<"describe_instances:all", region>>, <<"efs:describe_file_systems", region>>,
     <<"fsx:describe_file_systems", region>>}

ActivatePoints ==
    {<<"list_cost_allocation_tags", "ce">>, <<"put_cost_allocation_tags", "ce">>}
    \cup {<<"describe_tags", regions[n]>> : n \in DOMAIN regions}

\* The state a function of the program starts from, with the calls F failing.
St(F) ==
    [tags |-> tags, cost_tags |-> cost_tags, writes |-> writes, plans |-> plans,
     errors |-> errors, failed |-> failed, crashed |-> FALSE, hit |-> FALSE, F |-> F]

\* The state a function of the program leaves behind; main goes on at next_pc
\* and next_idx unless an exception ended it.
Commit(st, call, next_pc, next_idx) ==
    /\ tags' = st.tags
    /\ cost_tags' = st.cost_tags
    /\ writes' = st.writes
    /\ plans' = st.plans
    /\ errors' = st.errors
    /\ failed' = st.failed
    /\ faults' = IF st.hit THEN faults + Cardinality(st.F) ELSE faults
    /\ calls' = Append(calls, call)
    /\ pc' = IF st.crashed THEN "crashed" ELSE next_pc
    /\ idx' = IF st.crashed THEN idx ELSE next_idx
    /\ UNCHANGED <<argv, dry_run, regions, todo, tags0, arg, ret, run>>

\* An entry of `calls`.
CallOf(fn, region, what) == [fn |-> fn, region |-> region, what |-> what]

\* parse_args and the resolution of dry_run and regions
Parse ==
    /\ pc = "start"
    /\ dry_run' = ResolveDryRun(argv.action, argv.apply)
    /\ IF argv.action = "activate"
       THEN pc' = "activate" /\ regions' = ActivateRegions(argv.value)
       ELSE IF RegionRequired(argv.action, argv.value)
       THEN pc' = "error" /\ regions' = <<>>
       ELSE pc' = "loop" /\ regions' = ResolveRegions(argv.action, argv.value)
    /\ todo' = IF pc' = "loop" THEN sorted(regions') ELSE <<>>
    /\ UNCHANGED <<argv, idx, tags, tags0, cost_tags, writes, plans, errors, failed,
                   calls, faults, arg, ret, run>>

\* tagging activate
Activate ==
    /\ pc = "activate"
    /\ \E F \in FaultSets(Points(ActivatePoints)) :
         Commit(activate_cost_allocation_tags(St(F), regions, dry_run),
                CallOf("activate_cost_allocation_tags", "", "-"), "done", idx)

\* SHOW MODE: one iteration
ShowRegion ==
    /\ InLoop
    /\ Branch(argv.action, argv.fix_orphans) = "show"
    /\ \E F \in FaultSets(Points(ShowPoints(Region))) :
         Commit(show_region(St(F), Region), CallOf("show_region", Region, "-"),
                "loop", idx + 1)

\* ORPHAN-ONLY MODE: one iteration
FixOrphans ==
    /\ InLoop
    /\ Branch(argv.action, argv.fix_orphans) = "orphans"
    /\ \E F \in FaultSets(Points(EbsPoints(Region))) :
         Commit(fix_orphaned_ami_snapshots(St(F), Region, dry_run),
                CallOf("fix_orphaned_ami_snapshots", Region, "-"), "loop", idx + 1)

\* process_region(region, dry_run) of `ec2` and of the normal mode
ProcessRegion ==
    /\ InLoop
    /\ Branch(argv.action, argv.fix_orphans) \in {"ec2", "normal"}
    /\ \E F \in FaultSets(Points(Ec2Points(Region))) :
         LET storage == StorageAfterRegion(Branch(argv.action, argv.fix_orphans),
                                           argv.tag_storage)
         IN  Commit(process_region(St(F), Region, dry_run, TRUE, TRUE, TRUE),
                    CallOf("process_region", Region, "-"),
                    IF storage THEN "storage" ELSE "loop",
                    IF storage THEN idx ELSE idx + 1)

\* process_efs_and_fsx(region, dry_run) after process_region (--tag-storage)
ProcessStorage ==
    /\ pc = "storage"
    /\ \E F \in FaultSets(Points(EfsPoints(Region) \cup FsxPoints(Region))) :
         Commit(process_efs_and_fsx(St(F), Region, dry_run, TRUE, TRUE),
                CallOf("process_efs_and_fsx", Region, "efs+fsx"), "loop", idx + 1)

\* tagging efs: one iteration
ProcessEfsOnly ==
    /\ InLoop
    /\ Branch(argv.action, argv.fix_orphans) = "efs"
    /\ \E F \in FaultSets(Points(EfsPoints(Region))) :
         Commit(process_efs_and_fsx(St(F), Region, dry_run, TRUE, FALSE),
                CallOf("process_efs_and_fsx", Region, "efs"), "loop", idx + 1)

\* tagging fsx: one iteration
ProcessFsxOnly ==
    /\ InLoop
    /\ Branch(argv.action, argv.fix_orphans) = "fsx"
    /\ \E F \in FaultSets(Points(FsxPoints(Region))) :
         Commit(process_efs_and_fsx(St(F), Region, dry_run, FALSE, TRUE),
                CallOf("process_efs_and_fsx", Region, "fsx"), "loop", idx + 1)

\* tagging ebs: one iteration
ProcessAllEbs ==
    /\ InLoop
    /\ Branch(argv.action, argv.fix_orphans) = "ebs"
    /\ \E F \in FaultSets(Points(EbsPoints(Region))) :
         Commit(process_all_ebs(St(F), Region, dry_run),
                CallOf("process_all_ebs", Region, "-"), "loop", idx + 1)

\* tagging volumes: one iteration
ProcessAllVolumes ==
    /\ InLoop
    /\ Branch(argv.action, argv.fix_orphans) = "volumes"
    /\ \E F \in FaultSets(Points(EbsPoints(Region))) :
         Commit(process_all_volumes(St(F), Region, dry_run),
                CallOf("process_all_volumes", Region, "-"), "loop", idx + 1)

\* tagging snapshots: one iteration
ProcessAllSnapshots ==
    /\ InLoop
    /\ Branch(argv.action, argv.fix_orphans) = "snapshots"
    /\ \E F \in FaultSets(Points(EbsPoints(Region))) :
         Commit(process_all_snapshots(St(F), Region, dry_run),
                CallOf("process_all_snapshots", Region, "-"), "loop", idx + 1)

\* The loop is over: main prints its summary and returns.
Finish ==
    /\ pc = "loop"
    /\ idx > Len(todo)
    /\ pc' = "done"
    /\ UNCHANGED <<argv, dry_run, regions, todo, idx, tags, tags0, cost_tags, writes, plans,
                   errors, failed, calls, faults, arg, ret, run>>

\* The same command line is run again, right after a run with --apply in which
\* no AWS call failed: main starts over in the account as the first run left it.
Rerun ==
    /\ pc = "done"
    /\ run = 1
    /\ argv.apply
    /\ ~failed
    /\ run' = 2
    /\ pc' = "start"
    /\ dry_run' = TRUE
    /\ regions' = <<>>
    /\ todo' = <<>>
    /\ idx' = 1
    /\ tags0' = tags
    /\ writes' = {}
    /\ plans' = {}
    /\ errors' = {}
    /\ calls' = <<>>
    /\ UNCHANGED <<argv, tags, cost_tags, failed, faults, arg, ret>>

-----------------------------------------------------------------------------
(* The accounts and command lines a run starts from                        *)

\* A Name value with leading and repeated blanks.
SpacedName == <<" ", "a", " ", " ", "b">>

OldTags == (NAME :> <<"o", "l", "d">>) @@ (<<"a", "-", "b">> :> <<"x">>)

\* The tags of an account: i-1, v-1 and s-2 as given, EFS and FSx tagged or not.
Account(ti, tv, ts, storage) ==
    [res \in AllResources |->
       CASE res = i1 -> ti
         [] res = v1 -> tv
         [] res = s2 -> ts
         [] res = v2 -> (NAME :> <<"d", " ", "2">>) @@ (<<"e">> :> <<"1">>)
                          @@ (<<"a", "w", "s", ":", "x">> :> <<"1">>)
         [] res = i3 -> NAME :> <<"c">>
         [] res = v9 -> NAME :> <<"x">>
         [] res = fs1 /\ storage -> lower(NAME) :> <<"s", "t", " ", "1">>
         [] res = Arn(fx1) /\ storage -> NAME :> <<"f", ".", "x">>
         [] OTHER -> EmptyTags]

\* The accounts a run may start from. Instance i-1 has no Name, an empty Name,
\* a Name with blanks or the Name "Name"; its volume v-1 and the image snapshot
\* s-2 are untagged or already carry a Name and the key a-b with a value.
Accounts ==
    {Account(EmptyTags, EmptyTags, EmptyTags, FALSE),
     Account(NAME :> <<>>, EmptyTags, NAME :> <<"o", "l", "d">>, FALSE),
     Account(NAME :> SpacedName, EmptyTags, EmptyTags, FALSE),
     Account(NAME :> SpacedName, OldTags, NAME :> <<"o", "l", "d">>, FALSE),
     Account(NAME :> NAME, EmptyTags, EmptyTags, FALSE),
     Account(NAME :> SpacedName, EmptyTags, EmptyTags, TRUE)}

\* AWS billing at the start: Name is active, a-b is known but inactive.
InitialCostTags == (NAME :> "Active") @@ (<<"a", "-", "b">> :> "Inactive")

Init ==
    /\ argv \in [action : Actions, value : Values, apply : BOOLEAN,
                 fix_orphans : BOOLEAN, tag_storage : BOOLEAN]
    /\ pc = "start"
    /\ dry_run = TRUE
    /\ regions = <<>>
    /\ todo = <<>>
    /\ idx = 1
    /\ tags \in Accounts
    /\ tags0 = tags
    /\ cost_tags = InitialCostTags
    /\ writes = {}
    /\ plans = {}
    /\ errors = {}
    /\ failed = FALSE
    /\ calls = <<>>
    /\ faults = 0
    /\ arg = <<>>
    /\ ret = <<>>
    /\ run = 1

Next ==
    \/ Parse
    \/ Activate
    \/ ShowRegion
    \/ FixOrphans
    \/ ProcessRegion
    \/ ProcessStorage
    \/ ProcessEfsOnly
    \/ ProcessFsxOnly
    \/ ProcessAllEbs
    \/ ProcessAllVolumes
    \/ ProcessAllSnapshots
    \/ Finish
    \/ Rerun

Spec == Init /\ [][Next]_vars

-----------------------------------------------------------------------------
(* Properties                                                              *)

\* No write call was issued and AWS is as it was at the start of the run.
NothingWritten == writes = {} /\ tags = tags0 /\ cost_tags = InitialCostTags

\* C1: a run started without --apply never issues a write call (create_tags,
\* tag_resource, put_cost_allocation_tags), whatever the action and the other
\* flags, so every resource's tags stay as they were at the start.
C1_DryRunIsDefault == ~argv.apply => NothingWritten

\* A run of `set` without --apply, with --tag-storage, that has planned tags for
\* EC2 and for storage resources and has ended.
C1_Witness ==
    /\ pc = "done" /\ ~argv.apply /\ argv.action = "set" /\ argv.tag_storage
    /\ \E p \in plans : KindOf(p[2]) = "volume"
    /\ \E p \in plans : KindOf(p[2]) = "fsx"

\* C2: the dry-run action never issues a write call, even when --apply is given.
C2_DryRunActionForcesDryRun ==
    (argv.action = "dry-run" /\ argv.apply) => (dry_run /\ NothingWritten)

\* A run of `dry-run --apply` that has planned tags and has ended.
C2_Witness ==
    pc = "done" /\ argv.action = "dry-run" /\ argv.apply /\ plans # {}

\* C3: the show action calls nothing but show_region, plans and writes no tag and
\* leaves every tag as it was, whatever the flags.
C3_ShowOnlyLists ==
    argv.action = "show" =>
        /\ \A n \in DOMAIN calls : calls[n].fn = "show_region"
        /\ plans = {}
        /\ NothingWritten

\* A run of `show` with all three flags that has listed every region.
C3_Witness ==
    /\ pc = "done" /\ argv.action = "show"
    /\ argv.apply /\ argv.fix_orphans /\ argv.tag_storage
    /\ Len(calls) = Len(TARGET_REGIONS)

\* The regions the command line asks for, as the help text states them.
TargetRegions ==
    IF argv.action = "all" \/ argv.value = NoValue THEN Range(TARGET_REGIONS)
    ELSE {argv.value}

\* The resource carries a Name tag and a tag whose key is `key`.
Carries(res, key) == NAME \in DOMAIN tags[res] /\ key \in DOMAIN tags[res]

\* The account's snapshots that belong to an instance: those of the volumes in its
\* block-device mappings and those whose description contains its id.
SnapshotsOf(i) ==
    {s \in Range(Snapshots(RegionOf(i))) :
       \/ SnapshotVolume(s) \in Range(BlockDeviceMappings(i))
       \/ Contains(Description(s), i)}

\* C4: when a run of all, set or ec2 with --apply and without --fix-orphans ends
\* and no AWS call has failed, every running or stopped instance of every target
\* region, every volume of its block-device mappings and every snapshot that
\* belongs to it carry a Name tag and a tag whose key is the instance's machine key.
C4_PropagationFromInstances ==
    (/\ pc = "done" /\ argv.action \in {"all", "set", "ec2"}
     /\ argv.apply /\ ~argv.fix_orphans /\ ~failed)
    => \A i \in AllInstances :
         (RegionOf(i) \in TargetRegions /\ InstanceState(i) \in {"running", "stopped"})
         => LET key == get_machine_key(tags[i], i)
            IN  /\ Carries(i, key)
                /\ \A v \in Range(BlockDeviceMappings(i)) : Carries(v, key)
                /\ \A s \in SnapshotsOf(i) : Carries(s, key)

\* A run of `all --apply` without failure has ended: i-1, whose Name has blanks,
\* its volume, the snapshot of the volume and the snapshot that names i-1 in its
\* description all started untagged and have been written to.
C4_Witness ==
    /\ pc = "done" /\ argv.action = "all" /\ argv.apply /\ ~argv.fix_orphans /\ ~failed
    /\ tags0[i1] = (NAME :> SpacedName)
    /\ tags0[v1] = EmptyTags /\ tags0[s1] = EmptyTags /\ tags0[s2] = EmptyTags
    /\ \A res \in {i1, v1, s1, s2, v3} : \E w \in writes : w[2] = res

\* The instances, volumes, snapshots and images of the account.
Ec2Resources == AllInstances \cup AllVolumes \cup AllSnapshots \cup AllImages

\* C5: tags are only added, never overwritten: no create_tags call names a key
\* the resource had at the start of the run, and every tag an EC2 resource had at
\* the start of the run is there with the same value, at any point of any run.
C5_NeverOverwritten ==
    /\ \A w \in writes :
         w[1] = "create_tags" =>
           \A n \in DOMAIN w[3] : w[3][n][1] \notin DOMAIN tags0[w[2]]
    /\ \A res \in Ec2Resources :
         \A k \in DOMAIN tags0[res] :
           k \in DOMAIN tags[res] /\ tags[res][k] = tags0[res][k]

\* A run of `ec2 --apply` has ended in the account where v-1 and s-2 already have
\* a Name and v-1 already has the machine key of i-1, a-b, with the value "x":
\* both were processed (s-2 got the key) and kept what they had.
C5_Witness ==
    /\ pc = "done" /\ argv.action = "ec2" /\ argv.apply /\ ~argv.fix_orphans /\ ~failed
    /\ tags0[v1] = OldTags /\ get_machine_key(tags0[i1], i1) \in DOMAIN tags0[v1]
    /\ NAME \in DOMAIN tags0[s2]
    /\ \E w \in writes : w[2] = s2

\* The regions of the calls main has made, in order.
CalledRegions == [n \in DOMAIN calls |-> calls[n].region]

\* C6 as stated: with --fix-orphans, whatever the action, the run calls nothing
\* but fix_orphaned_ami_snapshots, and a run that has ended has called it once for
\* each target region.
C6_Original ==
    argv.fix_orphans =>
        /\ \A n \in DOMAIN calls : calls[n].fn = "fix_orphaned_ami_snapshots"
        /\ pc = "done" =>
             /\ Range(CalledRegions) = TargetRegions
             /\ Len(calls) = Cardinality(TargetRegions)

\* C6, amended: with --fix-orphans and an action other than show and activate,
\* the run calls nothing but fix_orphaned_ami_snapshots, touches only snapshots
\* and images, and a run that has ended has called it once for each target region.
C6_FixOrphansOnly ==
    (argv.fix_orphans /\ argv.action \notin {"show", "activate"}) =>
        /\ \A n \in DOMAIN calls : calls[n].fn = "fix_orphaned_ami_snapshots"
        /\ \A w \in writes : KindOf(w[2]) \in {"snapshot", "image"}
        /\ \A p \in plans : KindOf(p[2]) \in {"snapshot", "image"}
        /\ pc = "done" =>
             /\ Range(CalledRegions) = TargetRegions
             /\ Len(calls) = Cardinality(TargetRegions)

\* A run of `ebs --fix-orphans --tag-storage --apply` over all regions has ended
\* and has tagged the orphaned snapshot s-3 and the image.
C6_Witness ==
    /\ pc = "done" /\ argv.action = "ebs" /\ argv.value = NoValue
    /\ argv.fix_orphans /\ argv.tag_storage /\ argv.apply
    /\ \E w \in writes : w[2] = s3
    /\ \E w \in writes : w[2] = ami1

\* The call that --tag-storage adds after process_region(region).
StorageCall(region) == CallOf("process_efs_and_fsx", region, "efs+fsx")

\* Every process_region call is followed by the storage call of its region, or is
\* the last call of a run that it ended or that is about to make the storage call.
StorageFollowsRegion ==
    \A n \in DOMAIN calls :
      calls[n].fn = "process_region" =>
        IF n < Len(calls)
        THEN calls[n + 1] = StorageCall(calls[n].region)
        ELSE pc \in {"storage", "crashed"}

\* C7 as stated: in a run with --tag-storage and without --fix-orphans that has
\* ended, every process_region call is followed by process_efs_and_fsx for EFS
\* and FSx of the same region.
C7_Original ==
    (argv.tag_storage /\ ~argv.fix_orphans /\ pc = "done") => StorageFollowsRegion

\* C7, amended: in a run of all, set or dry-run with --tag-storage and without
\* --fix-orphans, every process_region call that returns is followed, before
\* anything else, by process_efs_and_fsx for EFS and FSx of the same region.
C7_StorageAfterEachRegion ==
    (argv.tag_storage /\ ~argv.fix_orphans /\ argv.action \in {"all", "set", "dry-run"})
    => StorageFollowsRegion

\* A run of `all --tag-storage` has ended: 17 regions, each followed by its storage call.
C7_Witness ==
    /\ pc = "done" /\ argv.action = "all" /\ argv.tag_storage /\ ~argv.fix_orphans
    /\ Len(calls) = 2 * Len(TARGET_REGIONS)
    /\ calls[Len(calls)].fn = "process_efs_and_fsx"

\* The resources a run has written to or planned tags for.
Touched == {w[2] : w \in writes} \cup {p[2] : p \in plans}

\* The kinds of resources each resource-specific action is for.
KindsOf(action) ==
    CASE action = "volumes" -> {"volume"}
      [] action = "snapshots" -> {"snapshot"}
      [] action = "ebs" -> {"volume", "snapshot"}
      [] action = "efs" -> {"efs"}
      [] action = "fsx" -> {"fsx"}
      [] action = "ec2" -> {"instance", "volume", "snapshot"}

\* The volumes and snapshots that belong to some listed instance.
OfInstances ==
    UNION {Range(BlockDeviceMappings(i)) \cup SnapshotsOf(i) :
           i \in {x \in AllInstances : InstanceState(x) \in {"running", "stopped"}}}

\* C8: without --fix-orphans, each of volumes, snapshots, ebs, efs, fsx and ec2
\* writes and plans tags only for resources of its own kind; ec2 only for
\* instances, their volumes and their snapshots.
C8_OnlyOwnKind ==
    (~argv.fix_orphans /\ argv.action \in {"volumes", "snapshots", "ebs", "efs", "fsx", "ec2"})
    => \A res \in Touched :
         /\ KindOf(res) \in KindsOf(argv.action)
         /\ (argv.action = "ec2" /\ KindOf(res) # "instance") => res \in OfInstances

\* A run of `volumes --tag-storage --apply` over all regions has ended and has
\* written to volumes in two regions.
C8_Witness ==
    /\ pc = "done" /\ argv.action = "volumes" /\ argv.value = NoValue
    /\ argv.apply /\ argv.tag_storage /\ ~argv.fix_orphans
    /\ \E w \in writes : w[2] = v2
    /\ \E w \in writes : w[2] = v3

\* The calls main makes once per region (the storage call that follows
\* process_region belongs to that region's iteration).
IsIteration(c) == c # StorageCall(c.region)

Iterations == SelectSeq(calls, IsIteration)

\* C9: for all, dry-run, show, ec2, ebs, volumes, snapshots, fsx and efs the
\* target regions are TARGET_REGIONS, or the one region given (never for all);
\* regions are processed in strictly ascending order (so none twice), none outside the target
\* set is called or touched, and a run that has ended has processed them all.
C9_RegionSelection ==
    argv.action \in {"all", "dry-run", "show", "ec2", "ebs", "volumes", "snapshots",
                     "fsx", "efs"}
    => LET its == Iterations
           target == TargetRegions
       IN  /\ \A n \in DOMAIN calls : calls[n].region \in target
           /\ \A n \in 1..(Len(its) - 1) : StrLess(its[n].region, its[n + 1].region)
           /\ \A res \in Touched : RegionOf(res) \in target
           /\ pc = "done" => {its[n].region : n \in DOMAIN its} = target

\* A run of `ebs` over all regions and a run of `ebs af-south-1`: both ended,
\* the first with 17 iterations, the second with one.
C9_Witness ==
    /\ pc = "done" /\ argv.action = "ebs" /\ ~argv.fix_orphans
    /\ \/ argv.value = NoValue /\ Len(Iterations) = Len(TARGET_REGIONS) /\ v3 \in Touched
       \/ argv.value = OtherRegion /\ Len(Iterations) = 1 /\ v9 \in Touched

\* C10: `set` without a region ends in the parser's error: main calls nothing,
\* no AWS call is made (none can fail), nothing is planned or written.
C10_SetRequiresRegion ==
    (argv.action = "set" /\ argv.value = NoValue /\ pc # "start")
    => /\ pc = "error"
       /\ calls = <<>> /\ plans = {} /\ errors = {}
       /\ ~failed /\ faults = 0
       /\ NothingWritten

\* `set --apply` without a region has ended in the parser's error.
C10_Witness ==
    pc = "error" /\ argv.action = "set" /\ argv.value = NoValue /\ argv.apply

\* The tag keys describe_tags reports on the instances, volumes and snapshots of
\* the scanned regions at the start of the run.
FoundKeys ==
    UNION {DOMAIN tags0[res] : res \in UNION {TaggedEc2(r) : r \in TargetRegions}}

\* The keys that are eligible for activation: found, not of AWS, not active.
EligibleKeys ==
    {k \in FoundKeys :
       /\ ~StartsWith(k, <<"a", "w", "s", ":">>)
       /\ ~(k \in DOMAIN InitialCostTags /\ InitialCostTags[k] = "Active")}

\* The put_cost_allocation_tags calls of the run.
Submitted == {w \in writes : w[1] = "put_cost_allocation_tags"}

\* C11: when `activate --apply` has ended with no AWS call failing, the eligible
\* keys were submitted in one put_cost_allocation_tags call, no other key was,
\* and no call was made when no key is eligible.
C11_ActivatesAllEligible ==
    (argv.action = "activate" /\ argv.apply /\ pc = "done" /\ ~failed)
    => IF EligibleKeys = {} THEN Submitted = {}
       ELSE /\ Cardinality(Submitted) = 1
            /\ \A w \in Submitted : Range(w[3]) = EligibleKeys

\* The self-owned snapshots of the target regions.
TargetSnapshots == UNION {Range(Snapshots(r)) : r \in TargetRegions}

\* The AMI ids of the snapshot's description.
AmiIdsOf(s) == FindAmiIds(lower(Description(s)))

\* The snapshot had no Name tag when the run started and its description
\* contains an AMI id.
Orphaned(s) == NAME \notin DOMAIN tags0[s] /\ AmiIdsOf(s) # <<>>

\* The run has planned (dry run) or applied a Name tag for the resource.
ReceivedName(res) ==
    IF dry_run THEN \E p \in plans : p[2] = res /\ p[3] = NAME
    ELSE NAME \in DOMAIN tags[res] /\ \E w \in writes : w[2] = res

\* The run has neither planned nor issued nor made a change of the resource's tags.
Untouched(res) ==
    /\ tags[res] = tags0[res]
    /\ \A w \in writes : w[2] # res
    /\ \A p \in plans : p[2] # res

\* C12 as stated: in a --fix-orphans run that has ended with no AWS call failing,
\* every orphaned snapshot has received a Name tag, and no snapshot that had a
\* Name tag was modified.
C12_Original ==
    (argv.fix_orphans /\ pc = "done" /\ ~failed)
    => \A s \in TargetSnapshots :
         /\ Orphaned(s) => ReceivedName(s)
         /\ NAME \in DOMAIN tags0[s] => Untouched(s)

\* C12, amended: in a --fix-orphans run of an action other than show and
\* activate that has ended with no AWS call failing, every orphaned snapshot
\* whose description names an image that still exists in the region has received
\* a Name tag; an orphaned snapshot none of whose AMI ids names an existing image
\* is left alone, as is every snapshot that had a Name tag (in every run, failed
\* calls or not).
C12_OrphanRepair ==
    (argv.fix_orphans /\ argv.action \notin {"show", "activate"})
    => \A s \in TargetSnapshots :
         /\ (pc = "done" /\ ~failed /\ Orphaned(s)
             /\ Range(AmiIdsOf(s)) \cap Images(RegionOf(s)) # {}) => ReceivedName(s)
         /\ (Orphaned(s) /\ Range(AmiIdsOf(s)) \cap Images(RegionOf(s)) = {}) => Untouched(s)
         /\ NAME \in DOMAIN tags0[s] => Untouched(s)

\* A run of `all --fix-orphans --apply` has ended with no failed call: the
\* snapshot s-3 of the existing image got its Name, the named snapshot s-2 and the
\* snapshot s-5 of the deregistered image are as they were.
C12_Witness ==
    /\ pc = "done" /\ argv.action = "all" /\ argv.fix_orphans /\ argv.apply /\ ~failed
    /\ NAME \notin DOMAIN tags0[s3] /\ NAME \in DOMAIN tags[s3]
    /\ NAME \in DOMAIN tags0[s2] /\ Untouched(s2)
    /\ Orphaned(s5) /\ Untouched(s5)

-----------------------------------------------------------------------------
(* Single calls of the string functions: get_machine_key, the key that      *)
(* process_all_volumes derives from the attached instance, and              *)
(* normalize_storage_key, each applied to one Name value.                   *)

\* The characters of the Name values: blank, tab, a lower-case and an upper-case
\* letter, a character that is neither alphanumeric nor whitespace.
Alphabet == {" ", "\t", "a", "B", "."}

\* The Name values: every string over Alphabet of at most MaxLen characters.
Names == UNION {[1..k -> Alphabet] : k \in 0..MaxLen}

\* The other tag an instance may carry.
OtherTag == <<"e">> :> <<"1">>

\* instance.tags of the instance the call is about
InstanceTags(a) ==
    (IF a.Name = None THEN EmptyTags ELSE NAME :> a.Name)
    @@ (IF a.other THEN OtherTag ELSE EmptyTags)

\* AWS as the call sees it: the instance i-1 with the tags of the argument, no
\* failing call.
CallSt ==
    [tags |-> i1 :> InstanceTags(arg), cost_tags |-> EmptyTags, writes |-> {}, plans |-> {},
     errors |-> {}, failed |-> FALSE, crashed |-> FALSE, hit |-> FALSE, F |-> {}]

NoRet == [fn |-> "", value |-> <<>>]

InitCall ==
    /\ arg \in [Name : Names \cup {None}, other : BOOLEAN]
    /\ ret = NoRet
    /\ pc = "call"
    /\ argv = [action |-> "all", value |-> NoValue, apply |-> FALSE,
               fix_orphans |-> FALSE, tag_storage |-> FALSE]
    /\ dry_run = TRUE
    /\ regions = <<>>
    /\ todo = <<>>
    /\ idx = 1
    /\ tags = i1 :> InstanceTags(arg)
    /\ tags0 = tags
    /\ cost_tags = EmptyTags
    /\ writes = {}
    /\ plans = {}
    /\ errors = {}
    /\ failed = FALSE
    /\ calls = <<>>
    /\ faults = 0
    /\ run = 1

\* The call returns.
Return(fn, value) ==
    /\ pc = "call"
    /\ ret' = [fn |-> fn, value |-> value]
    /\ pc' = "returned"
    /\ UNCHANGED <<argv, dry_run, regions, todo, idx, tags, tags0, cost_tags, writes, plans,
                   errors, failed, calls, faults, arg, run>>

\* process_instance: machine_key = get_machine_key(instance)
GetMachineKey == Return("get_machine_key", get_machine_key(tags[i1], i1))

\* process_all_volumes: machine_key of a volume attached to the instance
VolumeKey == Return("process_all_volumes", FromAttachments(CallSt, <<i1>>).machine_key)

\* process_efs_and_fsx: key = normalize_storage_key(name) for a Name tag value
NormalizeStorageKey ==
    /\ arg.Name # None
    /\ Return("normalize_storage_key", normalize_storage_key(arg.Name))

NextCall ==
    \/ GetMachineKey
    \/ VolumeKey
    \/ NormalizeStorageKey

CallSpec == InitCall /\ [][NextCall]_vars

RECURSIVE SqueezeFrom(_, _, _)
\* s without its whitespace, a "-" in the place of every run of whitespace that
\* has a character before it (started) and after it
SqueezeFrom(s, pending, started) ==
    IF s = <<>> THEN <<>>
    ELSE IF IsSpace(Head(s)) THEN SqueezeFrom(Tail(s), started, started)
    ELSE (IF pending THEN <<"-">> ELSE <<>>) \o <<Head(s)>> \o SqueezeFrom(Tail(s), FALSE, TRUE)

\* The value without leading and trailing whitespace and with a single "-" for
\* every run of whitespace.
Squeezed(s) == SqueezeFrom(s, FALSE, FALSE)

\* C13: get_machine_key returns the squeezed Name value, which holds no whitespace,
\* when the instance has a Name tag with a non-empty value, and the instance id
\* when it has no tags, no Name tag or an empty Name value.
C13_MachineKeyFromName ==
    (pc = "returned" /\ ret.fn = "get_machine_key")
    => IF arg.Name # None /\ arg.Name # <<>>
       THEN /\ ret.value = Squeezed(arg.Name)
            /\ \A n \in DOMAIN ret.value : ~IsSpace(ret.value[n])
       ELSE ret.value = i1

\* get_machine_key has returned a-B for the Name " a \tB" (with another tag on
\* the instance).
C13_Witness ==
    /\ pc = "returned" /\ ret.fn = "get_machine_key"
    /\ arg.Name = <<" ", "a", "\t", "B">> /\ arg.other
    /\ ret.value = <<"a", "-", "B">>

\* C14: the result of normalize_storage_key holds only ASCII letters, digits and
\* "-", and normalizing it again returns it unchanged.
C14_TagSafe ==
    (pc = "returned" /\ ret.fn = "normalize_storage_key")
    => /\ \A n \in DOMAIN ret.value : ret.value[n] \in Letters \cup Digits \cup {"-"}
       /\ normalize_storage_key(ret.value) = ret.value

\* The describe and create_tags calls of process_resource / plan_or_apply for the
\* volumes and snapshots of the region.
ResourcePoints(region) ==
    ({"describe_volumes", "create_tags"} \X Range(Volumes(region)))
    \cup ({"describe_snapshots", "create_tags"} \X Range(Snapshots(region)))

\* The entries of a log (writes, plans) that are not about the resources Xs.
Others(log, Xs) == {e \in log : e[2] \notin Xs}

\* The outcome `faulty` of process_region passes over the resources Xs: their tags
\* are as before the call, every other resource is tagged, planned and written
\* exactly as in the outcome `clean` of the call without a failure, and
\* process_region has returned.
PassedOver(Xs, faulty_tags, faulty_writes, faulty_plans, clean) ==
    /\ \A X \in Xs : faulty_tags[X] = tags[X]
    /\ \A res \in AllResources \ Xs : faulty_tags[res] = clean.tags[res]
    /\ Others(faulty_writes, Xs) = Others(clean.writes, Xs)
    /\ Others(faulty_plans, Xs) = Others(clean.plans, Xs)

\* The resource types process_resource is called with.
ResourceTypes == {"Volume", "Snapshot", "Snapshot (AMI)"}

\* Where process_region is about to be called: if the describe or create_tags call
\* of one volume or snapshot fails (and so the outcome is not that of the call
\* without a failure), the error is printed for it and it is passed over.
OneFailurePassedOver ==
    (InLoop /\ Branch(argv.action, argv.fix_orphans) \in {"ec2", "normal"})
    => LET clean == process_region(St({}), Region, dry_run, TRUE, TRUE, TRUE)
       IN  \A P \in Points(ResourcePoints(Region)) :
             LET faulty == process_region(St({P}), Region, dry_run, TRUE, TRUE, TRUE)
             IN  [faulty EXCEPT !.F = {}] # clean
                 => /\ ~faulty.crashed
                    /\ \E e \in faulty.errors \ errors : e[1] \in ResourceTypes /\ e[2] = P[2]
                    /\ PassedOver({P[2]}, faulty.tags, faulty.writes, faulty.plans, clean)

\* A process_region call that has printed errors for volumes and snapshots only
\* has passed over them.
FailuresPassedOver ==
    LET new == errors' \ errors
    IN  (/\ InLoop
         /\ calls' = Append(calls, CallOf("process_region", Region, "-"))
         /\ pc' # "crashed"
         /\ new # {} /\ \A e \in new : e[1] \in ResourceTypes)
        => PassedOver({e[2] : e \in new}, tags', writes', plans',
                      process_region(St({}), Region, dry_run, TRUE, TRUE, TRUE))

\* C15: when the describe or create_tags call of one volume or snapshot raises a
\* ClientError inside process_resource / plan_or_apply, the resource's tags stay
\* as they were, the error is printed, and process_region goes on with the other
\* volumes, snapshots and instances exactly as in the run without the failure.
C15_ErrorsPassedOver == [][OneFailurePassedOver /\ FailuresPassedOver]_vars

\* `set us-east-1 --apply`: process_region has printed an error for the volume
\* v-1, which is as it was, and has gone on to tag its snapshot s-1.
C15_Witness ==
    /\ argv.action = "set" /\ argv.apply /\ ~argv.fix_orphans
    /\ calls # <<>> /\ calls[Len(calls)].fn = "process_region"
    /\ pc # "crashed"
    /\ \E e \in errors : e[2] = v1
    /\ tags[v1] = tags0[v1]
    /\ NAME \notin DOMAIN tags0[s1] /\ NAME \in DOMAIN tags[s1]

RECURSIVE EntriesOf(_, _)
\* <<resource, key, value>> of every tag of a tag request
EntriesOf(id, tagList) ==
    IF tagList = <<>> THEN {}
    ELSE {<<id, tagList[1][1], tagList[1][2]>>} \cup EntriesOf(id, Tail(tagList))

\* Every tag the run has written (create_tags, tag_resource) or planned, as
\* <<resource, key, value>>.
TagEntries ==
    UNION {EntriesOf(w[2], w[3]) : w \in {x \in writes : x[1] # "put_cost_allocation_tags"}}
    \cup {<<p[2], p[3], p[4]>> : p \in {x \in plans : x[2] # <<>>}}

\* Every tag written or planned under a key other than Name has the empty value.
KeyTagsEmpty == \A e \in TagEntries : e[2] # NAME => e[3] = <<>>

\* Every Name tag written or planned for a volume or snapshot of an instance has
\* the instance's Name value, or the instance id when that is empty or missing
\* (or is the key tag of an instance whose machine key is "Name").
NameFromInstance ==
    \A i \in AllInstances :
      \A X \in Range(BlockDeviceMappings(i)) \cup SnapshotsOf(i) :
        \A e \in TagEntries :
          (e[1] = X /\ e[2] = NAME)
          => \/ e[3] = (IF NAME \in DOMAIN tags0[i] /\ tags0[i][NAME] # <<>>
                        THEN tags0[i][NAME] ELSE i)
             \/ e[3] = <<>> /\ get_machine_key(tags0[i], i) = NAME

\* C16 as stated: in every run the key tags have the empty value and the Name
\* tags of an instance's volumes and snapshots come from the instance.
C16_Original == KeyTagsEmpty /\ NameFromInstance

\* C16, amended: in every run the key tags have the empty value; in the runs
\* that propagate from instances (all, set, dry-run, ec2 without --fix-orphans)
\* the Name tags of an instance's volumes and snapshots come from the instance.
C16_NamePlusEmptyKey ==
    /\ KeyTagsEmpty
    /\ (argv.action \in {"all", "set", "dry-run", "ec2"} /\ ~argv.fix_orphans)
       => NameFromInstance

\* `ec2 --apply` has ended: the volume of the unnamed instance i-1 has the Name
\* i-1 and the key i-1 with the empty value, the volume of i-3 has the Name c.
C16_Witness ==
    /\ pc = "done" /\ argv.action = "ec2" /\ argv.apply /\ ~argv.fix_orphans
    /\ tags0[i1] = EmptyTags /\ tags0[v1] = EmptyTags
    /\ <<v1, NAME, i1>> \in TagEntries /\ <<v1, i1, <<>>>> \in TagEntries
    /\ tags[v1] = (NAME :> i1) @@ (i1 :> <<>>)
    /\ <<v3, NAME, <<"c">>>> \in TagEntries

\* The FSx file systems of the target regions.
TargetFsx == UNION {Range(FsxFileSystems(r)) : r \in TargetRegions}

\* The key of a file system: its name as listed at the start, normalized.
StorageKey(id, fs_id) == normalize_storage_key(StorageName(tags0[id], fs_id))

\* The resource has the tag key, or the dry run has planned it.
HasKey(res, key) ==
    \/ key \in DOMAIN tags[res]
    \/ dry_run /\ \E p \in plans : p[2] = res /\ p[3] = key /\ p[4] = <<>>

\* The FSx children of a file system whose type makes the code list them.
ChildrenByType(fs) ==
    Range(Backups(fs))
    \cup (IF FileSystemType(fs) \in {"ONTAP", "WINDOWS", "OPENZFS"}
          THEN Range(FsxVolumes(fs)) ELSE {})
    \cup (IF FileSystemType(fs) = "ONTAP" THEN Range(Svms(fs)) ELSE {})

\* Every tag written or planned for a child (backup, volume, SVM, access point)
\* is the key of its file system with the empty value.
ChildrenGetKeyOnly ==
    /\ \A fs \in AllFsxIds \cap UNION {Range(FsxFileSystems(r)) : r \in ModelRegions} :
         \A c \in Range(Backups(fs)) \cup Range(FsxVolumes(fs)) \cup Range(Svms(fs)) :
           \A e \in TagEntries :
             e[1] = Arn(c) => e[2] = StorageKey(Arn(fs), fs) /\ e[3] = <<>>
    /\ \A r \in ModelRegions : \A fs \in Range(EfsFileSystems(r)) :
         \A c \in Range(AccessPoints(fs)) :
           \A e \in TagEntries : e[1] = c => e[2] = StorageKey(fs, fs) /\ e[3] = <<>>

\* Is process_efs_and_fsx about to process FSx?
FsxNext == (InLoop /\ Branch(argv.action, argv.fix_orphans) = "fsx") \/ pc = "storage"

\* The outcome of the FSx processing that is about to happen when the calls F fail.
FsxOutcome(F) ==
    [process_efs_and_fsx(St(F), Region, dry_run, FALSE, TRUE) EXCEPT !.F = {}]

\* describe_volumes is called for a file system exactly when its type is ONTAP,
\* WINDOWS or OPENZFS, describe_storage_virtual_machines exactly when it is ONTAP:
\* a failure of the call changes the outcome in these cases and in no other.
ListedByType ==
    FsxNext
    => \A fs \in Range(FsxFileSystems(Region)) :
         /\ (FsxOutcome({<<"fsx:describe_volumes", fs>>}) # FsxOutcome({}))
            <=> FileSystemType(fs) \in {"ONTAP", "WINDOWS", "OPENZFS"}
         /\ (FsxOutcome({<<"describe_storage_virtual_machines", fs>>}) # FsxOutcome({}))
            <=> FileSystemType(fs) = "ONTAP"
         /\ FsxOutcome({<<"describe_backups", fs>>}) # FsxOutcome({})

\* C17: a run that tags FSx (fsx, or all/set/dry-run with --tag-storage) and has
\* ended with no failed call has given the key to every file system, to all its
\* backups, to its volumes when the type is ONTAP, WINDOWS or OPENZFS and to its
\* SVMs when it is ONTAP; the volumes and SVMs are listed for these types only;
\* and no run gives a backup, volume, SVM or EFS access point any tag but the key.
C17_FsxChildrenByType ==
    /\ ChildrenGetKeyOnly
    /\ ListedByType
    /\ (/\ pc = "done" /\ ~failed /\ ~argv.fix_orphans
        /\ \/ argv.action = "fsx"
           \/ argv.action \in {"all", "set", "dry-run"} /\ argv.tag_storage)
       => \A fs \in TargetFsx :
            /\ HasKey(Arn(fs), StorageKey(Arn(fs), fs))
            /\ \A c \in ChildrenByType(fs) : HasKey(Arn(c), StorageKey(Arn(fs), fs))

\* `fsx --apply` has ended: the ONTAP file system fx-1 (Name f.x), its backup,
\* volume and SVM have the key f-x, the backup of the LUSTRE file system has the
\* key fx-2, the volume of the OPENZFS file system has the key fx-3, and the
\* backup of fx-1 has no other tag.
C17_Witness ==
    /\ pc = "done" /\ argv.action = "fsx" /\ argv.apply /\ ~failed
    /\ tags0[Arn(fx1)] = (NAME :> <<"f", ".", "x">>)
    /\ \A c \in {fx1, b1, fv1, sv1} : <<"f", "-", "x">> \in DOMAIN tags[Arn(c)]
    /\ tags[Arn(b1)] = (<<"f", "-", "x">> :> <<>>)
    /\ tags[Arn(b2)] = (fx2 :> <<>>)
    /\ tags[Arn(fv3)] = (fx3 :> <<>>)

\* C18: when the command is run again after a run with --apply in which no AWS
\* call failed, and no call fails in the second run either, the second run issues
\* no write call (every set of tags to add is empty) and leaves all tags as the
\* first run left them.
C18_ApplyIsIdempotent ==
    (run = 2 /\ ~failed) => writes = {} /\ tags = tags0

\* The second run of `all --tag-storage --apply` over all regions has ended; the
\* first had tagged the volume v-1 and the file system fs-1.
C18_Witness ==
    /\ run = 2 /\ pc = "done" /\ ~failed
    /\ argv.action = "all" /\ argv.tag_storage /\ ~argv.fix_orphans
    /\ Len(calls) = 2 * Len(TARGET_REGIONS)
    /\ tags[v1] = (NAME :> i1) @@ (i1 :> <<>>)
    /\ NAME \in DOMAIN tags[fs1]

\* The last return value of the function in the single call.
Returned(fn) == pc = "returned" /\ ret.fn = fn

\* C19: for an instance with any Name tag value (or none), the key that
\* process_all_volumes derives from the instance for an attached volume is the
\* machine key that get_machine_key derives from the same instance.
C19_SameKeyInEveryMode ==
    Returned("process_all_volumes") => ret.value = get_machine_key(tags[i1], i1)

\* C20: in a run over all target regions that propagates from instances (all,
\* dry-run, ec2 without --fix-orphans), no AWS error stops the run: main is never
\* left by an exception, and the run that has ended has called process_region for
\* every target region.
C20_RegionsIsolated ==
    (argv.action \in {"all", "dry-run", "ec2"} /\ argv.value = NoValue /\ ~argv.fix_orphans)
    => /\ pc # "crashed"
       /\ pc = "done" =>
            {c.region : c \in {x \in Range(calls) : x.fn = "process_region"}} = TargetRegions

=============================================================================
